---------------------------- MODULE Spec2Model ----------------------------
(***************************************************************************)
(* Model of src/app.py: the study-plan generator.                          *)
(*                                                                         *)
(*   - the three pure helpers (analyze_learning_preferences_local,         *)
(*     generate_progress_tracking_local, extract_json_from_response),      *)
(*     each an operator computed the way the code computes it;             *)
(*   - create_study_plan and the routes POST /api/generate-plan and        *)
(*     GET /api/plan/<plan_id> over the in-memory store study_plans.       *)
(*                                                                         *)
(* Texts are sequences of characters (one-character strings).  Two kinds   *)
(* of multi-character unit are kept atomic: the fence marker (three        *)
(* backticks, written Fence) and a JSON string literal (such as            *)
(* "\"subjects\"").  A backtick therefore only occurs as a fence marker.   *)
(***************************************************************************)
EXTENDS Integers, Sequences, FiniteSets, TLC

VARIABLES
    study_plans,   \* app.py:32   plan id -> plan record
    now,           \* datetime.now(), in clock ticks
    workers,       \* per request thread: where it is in generate_plan / get_plan
    arg,           \* argument of the pure helper under check
    ret,           \* what the helper returned
    pc             \* "call" before the helper ran, "done" after

vars == <<study_plans, now, workers, arg, ret, pc>>

(***************************************************************************)
(* Bounds of the model.                                                    *)
(***************************************************************************)
MaxLen == 7          \* longest text given to extract_json_from_response
MaxWords == 3        \* most fragments in a preference text
MaxDays == 60        \* largest duration given to the checkpoint scheduler
MinDays == 4         \* durations start at -MinDays
MaxTime == 2         \* last clock tick
TicksPerSecond == 2  \* clock ticks in one second

(***************************************************************************)
(* Text primitives: str.strip, str.split('\n'), '\n'.join, startswith.     *)
(***************************************************************************)
Fence == "<fence>"   \* the three-backtick marker, one unit
Newline == "\n"
Whitespace == {" ", Newline}

RECURSIVE LStrip(_)
LStrip(s) ==
    IF s # <<>> /\ Head(s) \in Whitespace THEN LStrip(Tail(s)) ELSE s

RECURSIVE RStrip(_)
RStrip(s) ==
    IF s # <<>> /\ s[Len(s)] \in Whitespace
    THEN RStrip(SubSeq(s, 1, Len(s) - 1))
    ELSE s

Strip(s) == RStrip(LStrip(s))

\* text.split('\n'): always at least one line; cur is the line being read
RECURSIVE SplitFrom(_, _, _)
SplitFrom(s, cur, acc) ==
    IF s = <<>> THEN Append(acc, cur)
    ELSE IF Head(s) = Newline THEN SplitFrom(Tail(s), <<>>, Append(acc, cur))
    ELSE SplitFrom(Tail(s), Append(cur, Head(s)), acc)

SplitLines(s) == SplitFrom(s, <<>>, <<>>)

RECURSIVE JoinLines(_)
JoinLines(ls) ==
    IF ls = <<>> THEN <<>>
    ELSE IF Len(ls) = 1 THEN ls[1]
    ELSE ls[1] \o <<Newline>> \o JoinLines(Tail(ls))

StartsWithFence(s) == s # <<>> /\ Head(s) = Fence

(***************************************************************************)
(* JSON values as json.loads builds them.  Each kind of value has its own  *)
(* field names, so values of different kinds are unequal records.          *)
(***************************************************************************)
JNum(n) == [t |-> "num", n |-> n]
JStr(s) == [t |-> "str", s |-> s]
JArr(items) == [t |-> "arr", items |-> items]
JObj(members) == [t |-> "obj", members |-> members]

EmptyDict == [k \in {} |-> JNum(0)]
DictSet(d, key, v) == [k \in DOMAIN d \cup {key} |-> IF k = key THEN v ELSE d[k]]

IsDict(v) == v.t = "obj"
HasKey(v, key) == IsDict(v) /\ key \in DOMAIN v.members

\* string literals of the texts, and the str each one denotes
Unquote ==
    [lit \in {"\"subjects\"", "\"name\"", "\"Math\"", "\"total_estimated_hours\"",
              "\"schedule\"", "\"resource_recommendations\""} |->
        CASE lit = "\"subjects\"" -> "subjects"
          [] lit = "\"name\"" -> "name"
          [] lit = "\"Math\"" -> "Math"
          [] lit = "\"total_estimated_hours\"" -> "total_estimated_hours"
          [] lit = "\"schedule\"" -> "schedule"
          [] lit = "\"resource_recommendations\"" -> "resource_recommendations"]

StrLits == DOMAIN Unquote
DigitVal == [c \in {"1", "2"} |-> IF c = "1" THEN 1 ELSE 2]
Digits == DOMAIN DigitVal

\* the maximal run of digits at the head of s, as [n, rest]; a number with
\* no fraction and no exponent
RECURSIVE ScanInt(_, _)
ScanInt(s, n) ==
    IF s # <<>> /\ Head(s) \in Digits
    THEN ScanInt(Tail(s), 10 * n + DigitVal[Head(s)])
    ELSE [n |-> n, rest |-> s]

ParseFail == [ok |-> FALSE]
ParseOk(v, rest) == [ok |-> TRUE, val |-> v, rest |-> rest]

\* json.JSONDecoder: one value at the head of s (after whitespace)
RECURSIVE ParseValue(_)
RECURSIVE ParseElements(_, _)
RECURSIVE ParseMembers(_, _)

ParseValue(s0) ==
    LET s == LStrip(s0) IN
    IF s = <<>> THEN ParseFail
    ELSE IF Head(s) \in Digits THEN
        LET r == ScanInt(s, 0) IN ParseOk(JNum(r.n), r.rest)
    ELSE IF Head(s) \in StrLits THEN ParseOk(JStr(Unquote[Head(s)]), Tail(s))
    ELSE IF Head(s) = "[" THEN
        LET t == LStrip(Tail(s)) IN
        IF t # <<>> /\ Head(t) = "]" THEN ParseOk(JArr(<<>>), Tail(t))
        ELSE ParseElements(t, <<>>)
    ELSE IF Head(s) = "{" THEN
        LET t == LStrip(Tail(s)) IN
        IF t # <<>> /\ Head(t) = "}" THEN ParseOk(JObj(EmptyDict), Tail(t))
        ELSE ParseMembers(t, EmptyDict)
    ELSE ParseFail

\* s stands after "[" or ","
ParseElements(s, acc) ==
    LET r == ParseValue(s) IN
    IF ~r.ok THEN ParseFail
    ELSE LET t == LStrip(r.rest) IN
         IF t = <<>> THEN ParseFail
         ELSE IF Head(t) = "," THEN ParseElements(Tail(t), Append(acc, r.val))
         ELSE IF Head(t) = "]" THEN ParseOk(JArr(Append(acc, r.val)), Tail(t))
         ELSE ParseFail

\* s stands after "{" or ","; a repeated key keeps its last value
ParseMembers(s0, acc) ==
    LET s == LStrip(s0) IN
    IF s = <<>> \/ Head(s) \notin StrLits THEN ParseFail
    ELSE LET c == LStrip(Tail(s)) IN
         IF c = <<>> \/ Head(c) # ":" THEN ParseFail
         ELSE LET r == ParseValue(Tail(c)) IN
              IF ~r.ok THEN ParseFail
              ELSE LET t == LStrip(r.rest)
                       d == DictSet(acc, Unquote[Head(s)], r.val) IN
                   IF t = <<>> THEN ParseFail
                   ELSE IF Head(t) = "," THEN ParseMembers(Tail(t), d)
                   ELSE IF Head(t) = "}" THEN ParseOk(JObj(d), Tail(t))
                   ELSE ParseFail

\* json.loads(text): one value and nothing but whitespace after it;
\* [ok |-> FALSE] stands for json.JSONDecodeError
JsonLoads(text) ==
    LET r == ParseValue(text) IN
    IF r.ok /\ LStrip(r.rest) = <<>> THEN [ok |-> TRUE, val |-> r.val]
    ELSE ParseFail

(***************************************************************************)
(* extract_json_from_response (app.py:121-150).                            *)
(***************************************************************************)
NoneIdx == -1        \* start_idx = None, end_idx = None
Truthy(idx) == idx # NoneIdx /\ idx # 0       \* `if start_idx and end_idx`

\* lines[a:b] for 0 <= a, b <= len(lines)
Slice(lines, a, b) == SubSeq(lines, a + 1, b)

\* the returned value when json.loads raises JSONDecodeError
Sentinel == JObj([error |-> JStr("Failed to parse JSON response")])

\* the loop over enumerate(lines), at index i (0-based) with start_idx so far
RECURSIVE ScanLines(_, _, _)
ScanLines(lines, i, start_idx) ==
    IF i >= Len(lines) THEN [start_idx |-> start_idx, end_idx |-> NoneIdx]
    ELSE IF StartsWithFence(Strip(lines[i + 1])) THEN
        IF start_idx = NoneIdx THEN ScanLines(lines, i + 1, i + 1)
        ELSE [start_idx |-> start_idx, end_idx |-> i]
    ELSE ScanLines(lines, i + 1, start_idx)

\* RemoveFences with the closing fence line kept in the slice
\* (lines[start_idx:end_idx + 1])
RemoveFences_KeepClosingLine(text) ==
    IF StartsWithFence(text) THEN
        LET lines == SplitLines(text)
            f == ScanLines(lines, 0, NoneIdx) IN
        IF Truthy(f.start_idx) /\ Truthy(f.end_idx)
        THEN Strip(JoinLines(Slice(lines, f.start_idx, f.end_idx + 1)))
        ELSE text
    ELSE text

\* "Remove code fences if present": the text handed to json.loads
RemoveFences(text) ==
    IF StartsWithFence(text) THEN
        LET lines == SplitLines(text)
            f == ScanLines(lines, 0, NoneIdx) IN
        IF Truthy(f.start_idx) /\ Truthy(f.end_idx)
        THEN Strip(JoinLines(Slice(lines, f.start_idx, f.end_idx)))
        ELSE text
    ELSE text

extract_json_from_response(text) ==
    LET r == JsonLoads(RemoveFences(Strip(text))) IN
    IF r.ok THEN r.val ELSE Sentinel

(***************************************************************************)
(* State shared by the specifications.                                     *)
(***************************************************************************)
NotReturned == [t |-> "unset"]
Idle == [pc |-> "idle"]
\* One request thread.  Threads share only study_plans and the clock, and
\* a request touches both in a single step (ResourceStep), so requests of
\* several threads reach the stores that requests served in turn reach.
Workers == {"w1"}

ServerInit ==
    /\ study_plans = <<>>
    /\ now = 0
    /\ workers = [w \in Workers |-> Idle]

(***************************************************************************)
(* SpecExtract: extract_json_from_response on every text of at most MaxLen *)
(* characters over ExtractChars.                                           *)
(***************************************************************************)
ExtractChars == {Fence, " ", Newline, "{", "}", "j"}

InitExtract ==
    /\ ServerInit
    /\ \E k \in 0..MaxLen : arg \in [1..k -> ExtractChars]
    /\ ret = NotReturned
    /\ pc = "call"

CallExtract ==
    /\ pc = "call"
    /\ ret' = extract_json_from_response(arg)
    /\ pc' = "done"
    /\ UNCHANGED <<study_plans, now, workers, arg>>

NextExtract == CallExtract
SpecExtract == InitExtract /\ [][NextExtract]_vars

\* The text the claim says is parsed: the trimmed text, or, when the trimmed
\* text starts with a fence marker and a later line (leading blanks aside)
\* starts with one too, the trimmed lines strictly between the first line
\* and the first such later line.
C8_Parsed(text) ==
    LET tr == Strip(text)
        lines == SplitLines(tr)
        closing == {j \in 2..Len(lines) : StartsWithFence(Strip(lines[j]))} IN
    IF StartsWithFence(tr) /\ closing # {}
    THEN LET j == CHOOSE m \in closing : \A k \in closing : m <= k IN
         Strip(JoinLines(SubSeq(lines, 2, j - 1)))
    ELSE tr

\* arg is body between an opening fence line carrying tag and a closing
\* fence line, and body is a JSON object
C8_IsWrappedObject(text, tag) ==
    LET n == Len(tag)
        body == SubSeq(text, n + 3, Len(text) - 2) IN
    /\ Len(text) >= n + 4
    /\ SubSeq(text, 1, n + 2) = <<Fence>> \o tag \o <<Newline>>
    /\ SubSeq(text, Len(text) - 1, Len(text)) = <<Newline, Fence>>
    /\ JsonLoads(body).ok
    /\ IsDict(JsonLoads(body).val)
C8_Body(text, tag) == SubSeq(text, Len(tag) + 3, Len(text) - 2)
C8_Tags == {<<>>, <<"j">>}

\* C8: extract_json_from_response returns json.loads of the parsed text when
\* that text is JSON and the sentinel otherwise; so a fenced JSON object
\* yields the value of the unwrapped JSON, and an opening fence with no
\* closing fence line yields the sentinel.
C8_ExtractContract ==
    pc = "done" =>
        /\ ret = IF JsonLoads(C8_Parsed(arg)).ok
                 THEN JsonLoads(C8_Parsed(arg)).val
                 ELSE Sentinel
        /\ \A tag \in C8_Tags :
               C8_IsWrappedObject(arg, tag) => ret = JsonLoads(C8_Body(arg, tag)).val
        /\ (StartsWithFence(Strip(arg))
              /\ \A j \in 2..Len(SplitLines(Strip(arg))) :
                    ~StartsWithFence(Strip(SplitLines(Strip(arg))[j])))
           => ret = Sentinel

\* a fenced object with a language tag was extracted to the object itself
C8_Witness ==
    /\ pc = "done"
    /\ arg = <<Fence, "j", Newline, "{", "}", Newline>> \o <<Fence>>
    /\ ret = JObj(EmptyDict)

(***************************************************************************)
(* generate_progress_tracking_local (app.py:99-119).                       *)
(***************************************************************************)
Max(a, b) == IF a >= b THEN a ELSE b
Min(a, b) == IF a <= b THEN a ELSE b

\* Interval without the floor of 7 days
Interval_NoWeekFloor(duration_days) == duration_days \div 4

\* interval = max(7, duration_days // 4); // and \div both round down
Interval(duration_days) == Max(7, duration_days \div 4)

\* the loop `for i in range(1, 5)`, at i with the checkpoints appended so far
RECURSIVE CheckpointLoop(_, _, _)
CheckpointLoop(duration_days, i, checkpoints) ==
    IF i >= 5 THEN checkpoints
    ELSE CheckpointLoop(duration_days, i + 1,
            Append(checkpoints,
                   [day |-> Min(duration_days, i * Interval(duration_days)),
                    checkpoint |-> "Review Week " \o ToString(i),
                    assessment |-> "Quiz + practical exercise"]))

generate_progress_tracking_local(duration_days) ==
    [checkpoint_schedule |-> CheckpointLoop(duration_days, 1, <<>>),
     tracking_metrics |-> <<"Daily session completion",
                            "Topic understanding scores",
                            "Practice problem accuracy">>]

(***************************************************************************)
(* SpecProgress: generate_progress_tracking_local on every duration in     *)
(* -MinDays..MaxDays.                                                      *)
(***************************************************************************)
InitProgress ==
    /\ ServerInit
    /\ arg \in (0 - MinDays)..MaxDays
    /\ ret = NotReturned
    /\ pc = "call"

CallProgress ==
    /\ pc = "call"
    /\ ret' = generate_progress_tracking_local(arg)
    /\ pc' = "done"
    /\ UNCHANGED <<study_plans, now, workers, arg>>

NextProgress == CallProgress
SpecProgress == InitProgress /\ [][NextProgress]_vars

C9_Labels == <<"Review Week 1", "Review Week 2", "Review Week 3", "Review Week 4">>
C9_Floor4(d) == CHOOSE q \in 0..d : 4 * q <= d /\ d < 4 * (q + 1)
C9_Day(d, i) ==
    LET step == IF C9_Floor4(d) > 7 THEN C9_Floor4(d) ELSE 7 IN
    IF i * step < d THEN i * step ELSE d

\* C9: for duration_days >= 1 there are exactly 4 checkpoints, the i-th is
\* "Review Week i" on day min(duration_days, i * max(7, floor(duration_days/4)));
\* the days never decrease and lie in 1..duration_days; durations 1..6 put
\* all four on the last day; 28 days gives 7, 14, 21, 28.
C9_CheckpointContract ==
    (pc = "done" /\ arg >= 1) =>
        LET cs == ret.checkpoint_schedule IN
        /\ Len(cs) = 4
        /\ \A i \in 1..4 :
              /\ cs[i].checkpoint = C9_Labels[i]
              /\ cs[i].day = C9_Day(arg, i)
              /\ cs[i].day \in 1..arg
        /\ \A i \in 1..3 : cs[i].day <= cs[i + 1].day
        /\ arg \in 1..6 => \A i \in 1..4 : cs[i].day = arg
        /\ arg = 28 => [i \in 1..4 |-> cs[i].day] = <<7, 14, 21, 28>>

\* the 28-day plan was scheduled: one checkpoint at the end of each week
C9_Witness ==
    /\ pc = "done"
    /\ arg = 28
    /\ [i \in 1..4 |-> ret.checkpoint_schedule[i].day] = <<7, 14, 21, 28>>

(***************************************************************************)
(* analyze_learning_preferences_local (app.py:74-97).                      *)
(***************************************************************************)
UpperCase == <<"A", "B", "C", "D", "E", "F", "G", "H", "I", "J", "K", "L", "M",
               "N", "O", "P", "Q", "R", "S", "T", "U", "V", "W", "X", "Y", "Z">>
LowerCase == <<"a", "b", "c", "d", "e", "f", "g", "h", "i", "j", "k", "l", "m",
               "n", "o", "p", "q", "r", "s", "t", "u", "v", "w", "x", "y", "z">>

LowerChar(c) ==
    IF \E i \in DOMAIN UpperCase : UpperCase[i] = c
    THEN LowerCase[CHOOSE i \in DOMAIN UpperCase : UpperCase[i] = c]
    ELSE c

\* str.lower()
Lower(s) == [i \in DOMAIN s |-> LowerChar(s[i])]

\* `kw in s`
Contains(s, kw) ==
    \E i \in 1..(Len(s) - Len(kw) + 1) : SubSeq(s, i, i + Len(kw) - 1) = kw

KwVisual == <<"v", "i", "s", "u", "a", "l">>
KwAudio == <<"a", "u", "d", "i", "o">>
KwAuditory == <<"a", "u", "d", "i", "t", "o", "r", "y">>
KwKinesthetic == <<"k", "i", "n", "e", "s", "t", "h", "e", "t", "i", "c">>
KwHands == <<"h", "a", "n", "d", "s">>

\* PrimaryStyle on the text as given, not lower-cased
PrimaryStyle_CaseSensitive(prefs_text) ==
    IF Contains(prefs_text, KwVisual) THEN "visual"
    ELSE IF Contains(prefs_text, KwAudio) \/ Contains(prefs_text, KwAuditory)
        THEN "auditory"
    ELSE IF Contains(prefs_text, KwKinesthetic) \/ Contains(prefs_text, KwHands)
        THEN "kinesthetic"
    ELSE "reading-writing"

PrimaryStyle(prefs_text) ==
    LET prefs_lower == Lower(prefs_text) IN
    IF Contains(prefs_lower, KwVisual) THEN "visual"
    ELSE IF Contains(prefs_lower, KwAudio) \/ Contains(prefs_lower, KwAuditory)
        THEN "auditory"
    ELSE IF Contains(prefs_lower, KwKinesthetic) \/ Contains(prefs_lower, KwHands)
        THEN "kinesthetic"
    ELSE "reading-writing"

methods ==
    [s \in {"visual", "auditory", "kinesthetic", "reading-writing"} |->
        CASE s = "visual" ->
                <<"video lectures", "diagrams", "mind maps", "flashcards">>
          [] s = "auditory" ->
                <<"podcasts", "audio books", "group discussions", "lectures">>
          [] s = "kinesthetic" ->
                <<"hands-on practice", "labs", "projects", "simulations">>
          [] s = "reading-writing" ->
                <<"textbooks", "note-taking", "written summaries", "articles">>]

analyze_learning_preferences_local(prefs_text) ==
    LET primary == PrimaryStyle(prefs_text) IN
    [primary_learning_style |-> primary,
     recommended_study_methods |->
        IF primary \in DOMAIN methods THEN methods[primary]
        ELSE methods["reading-writing"],
     personalized_tips |->
        "Use 45-90 minute focused sessions with breaks. Apply active recall and spaced repetition."]

(***************************************************************************)
(* SpecPrefs: analyze_learning_preferences_local on every text made of at  *)
(* most MaxWords of the fragments below (keywords in mixed case, whole or  *)
(* split across fragments).                                                *)
(***************************************************************************)
Fragments ==
    {<<"V", "i", "s">>, <<"U", "A", "L">>,
     <<"A", "u", "d", "i", "o">>, <<"a", "u", "d", "i", "t">>, <<"O", "R", "Y">>,
     <<"H", "a", "n", "d", "s">>,
     <<"K", "I", "N", "E", "S", "T", "H", "E", "T", "I", "C">>,
     <<" ">>}

RECURSIVE Concat(_)
Concat(ws) == IF ws = <<>> THEN <<>> ELSE Head(ws) \o Concat(Tail(ws))

InitPrefs ==
    /\ ServerInit
    /\ \E k \in 0..MaxWords : \E ws \in [1..k -> Fragments] : arg = Concat(ws)
    /\ ret = NotReturned
    /\ pc = "call"

CallPrefs ==
    /\ pc = "call"
    /\ ret' = analyze_learning_preferences_local(arg)
    /\ pc' = "done"
    /\ UNCHANGED <<study_plans, now, workers, arg>>

NextPrefs == CallPrefs
SpecPrefs == InitPrefs /\ [][NextPrefs]_vars

\* kw occurs in s when letter case is ignored
C10_Has(s, kw) ==
    \E i \in 0..(Len(s) - Len(kw)) :
        \A k \in 1..Len(kw) : s[i + k] = kw[k] \/ LowerChar(s[i + k]) = kw[k]

C10_Style(s) ==
    CASE C10_Has(s, KwVisual) -> "visual"
      [] ~C10_Has(s, KwVisual)
         /\ (C10_Has(s, KwAudio) \/ C10_Has(s, KwAuditory)) -> "auditory"
      [] ~C10_Has(s, KwVisual) /\ ~C10_Has(s, KwAudio) /\ ~C10_Has(s, KwAuditory)
         /\ (C10_Has(s, KwKinesthetic) \/ C10_Has(s, KwHands)) -> "kinesthetic"
      [] OTHER -> "reading-writing"

\* C10: for every preference text the result is well formed, its style is
\* visual / auditory / kinesthetic / reading-writing by the first keyword
\* group (in that order) the text contains in any letter case, and its
\* methods are the fixed 4-entry list of that style.
C10_PreferenceContract ==
    pc = "done" =>
        /\ DOMAIN ret = {"primary_learning_style", "recommended_study_methods",
                         "personalized_tips"}
        /\ ret.primary_learning_style = C10_Style(arg)
        /\ Len(ret.recommended_study_methods) = 4
        /\ ret.recommended_study_methods = methods[C10_Style(arg)]

\* "Audio" and "VisUAL" together: visual wins over auditory
C10_Witness ==
    /\ pc = "done"
    /\ arg = <<"A", "u", "d", "i", "o", "V", "i", "s", "U", "A", "L">>
    /\ ret.primary_learning_style = "visual"
    /\ ret.recommended_study_methods[1] = "video lectures"

(***************************************************************************)
(* Request bodies of POST /api/generate-plan.  A field of the body is      *)
(* absent, a string (a form field, or a JSON string) or a JSON number.     *)
(***************************************************************************)
Missing == [kind |-> "missing"]
StrField(chars) == [kind |-> "str", chars |-> chars]
IntField(n) == [kind |-> "int", n |-> n]

Raised == [ok |-> FALSE]
Returned(v) == [ok |-> TRUE, val |-> v]

\* data.get(key, '').strip(): only a str has .strip()
GetStripped(field) ==
    IF field.kind = "missing" THEN Returned(<<>>)
    ELSE IF field.kind = "str" THEN Returned(Strip(field.chars))
    ELSE Raised

\* int(data.get('study_duration_days', 30)); int(str) takes digits only
\* (blanks around them allowed) and raises ValueError on anything else
GetDuration(field) ==
    IF field.kind = "missing" THEN Returned(30)
    ELSE IF field.kind = "int" THEN Returned(field.n)
    ELSE IF field.kind = "str" THEN
        LET r == ScanInt(Strip(field.chars), 0) IN
        IF Strip(field.chars) # <<>> /\ r.rest = <<>> THEN Returned(r.n) ELSE Raised
    ELSE Raised

(***************************************************************************)
(* create_study_plan (app.py:156-275): what it computes between two        *)
(* generation calls.                                                       *)
(***************************************************************************)
\* seq[:n]
Take(seq, n) == SubSeq(seq, 1, Min(n, Len(seq)))

\* GetSubjects as syllabus_analysis['subjects']: no default for a missing key
GetSubjects_NoDefault(syllabus_analysis) ==
    IF ~IsDict(syllabus_analysis) THEN Raised
    ELSE IF "subjects" \in DOMAIN syllabus_analysis.members
        THEN Returned(syllabus_analysis.members["subjects"])
    ELSE Raised

\* syllabus_analysis.get('subjects', []): only a dict has .get()
GetSubjects(syllabus_analysis) ==
    IF ~IsDict(syllabus_analysis) THEN Raised
    ELSE IF "subjects" \in DOMAIN syllabus_analysis.members
        THEN Returned(syllabus_analysis.members["subjects"])
    ELSE Returned(JArr(<<>>))

\* subjects[:n]: a list is sliced (so is a str, atomic here and left whole);
\* a number or a dict is not subscriptable by a slice
SliceSubjects(subjects, n) ==
    IF subjects.t = "arr" THEN Returned(JArr(Take(subjects.items, n)))
    ELSE IF subjects.t = "str" THEN Returned(subjects)
    ELSE Raised

\* app.py:203  json.dumps(syllabus_analysis.get('subjects', [])[:2])
ScheduleSubjects(syllabus_analysis) ==
    LET g == GetSubjects(syllabus_analysis) IN
    IF ~g.ok THEN Raised ELSE SliceSubjects(g.val, 2)

\* app.py:229-231  [s['name'] for s in ...get('subjects', [])[:3]], then
\* ', '.join(topics): each s must be a dict with a 'name' that is a str
\* (the characters of a non-empty str are not)
ResourceTopics(syllabus_analysis) ==
    LET g == GetSubjects(syllabus_analysis) IN
    IF ~g.ok THEN Raised
    ELSE LET sl == SliceSubjects(g.val, 3) IN
         IF ~sl.ok \/ sl.val.t # "arr" THEN Raised
         ELSE IF \A i \in DOMAIN sl.val.items :
                    /\ HasKey(sl.val.items[i], "name")
                    /\ sl.val.items[i].members["name"].t = "str"
              THEN Returned([i \in DOMAIN sl.val.items |->
                                sl.val.items[i].members["name"].s])
              ELSE Raised

\* app.py:261-269
PlanRecord(created_at, w) ==
    [created_at |-> created_at,
     duration_days |-> w.study_duration_days,
     syllabus_analysis |-> w.syllabus_analysis,
     learning_analysis |-> w.learning_analysis,
     schedule |-> w.schedule,
     resources |-> w.resources,
     progress_tracking |-> generate_progress_tracking_local(w.study_duration_days)]

\* f"plan_{int(datetime.now().timestamp())}": the whole seconds of the clock
PlanId(t) == t \div TicksPerSecond

\* study_plans[plan_id] = study_plan
StorePlan(plans, plan_id, study_plan) ==
    [id \in DOMAIN plans \cup {plan_id} |->
        IF id = plan_id THEN study_plan ELSE plans[id]]

(***************************************************************************)
(* The routes.  A worker is a request thread: idle, inside generate_plan   *)
(* waiting for one of the three kickoff() calls, or holding the response   *)
(* it sent.  `calls` lists what the kickoff() calls made so far gave back. *)
(***************************************************************************)
Free(w) == workers[w].pc \in {"idle", "responded"}

Respond(w, request, calls, status, payload) ==
    workers' = [workers EXCEPT ![w] =
        [pc |-> "responded", route |-> "generate_plan", request |-> request,
         calls |-> calls, status |-> status, payload |-> payload]]

ErrorPayload(msg) == [error |-> msg]

\* Abort with the status left out of the return: Flask then answers 200
Abort_NoStatus(w, request, calls) ==
    Respond(w, request, calls, 200, ErrorPayload("exception"))

\* app.py:271-275 and 388-392: the exception is logged and re-raised by
\* create_study_plan, and generate_plan answers {'error': str(e)}, 500
Abort(w, request, calls) == Respond(w, request, calls, 500, ErrorPayload("exception"))

\* app.py:346-368 and 163-193: the request is read and validated, the
\* preferences classified, and syllabus_crew.kickoff() is called
generate_plan(w, data) ==
    /\ Free(w)
    /\ LET syllabus_text == GetStripped(data.syllabus_text)
           learning_prefs == GetStripped(data.learning_preferences)
           duration == GetDuration(data.study_duration_days) IN
       IF ~syllabus_text.ok \/ ~learning_prefs.ok \/ ~duration.ok
       THEN Abort(w, data, <<>>)
       ELSE IF syllabus_text.val = <<>>
       THEN Respond(w, data, <<>>, 400, ErrorPayload("Syllabus text is required"))
       ELSE IF learning_prefs.val = <<>>
       THEN Respond(w, data, <<>>, 400,
                    ErrorPayload("Learning preferences are required"))
       ELSE workers' = [workers EXCEPT ![w] =
               [pc |-> "syllabus", request |-> data, calls |-> <<>>,
                study_duration_days |-> duration.val,
                learning_analysis |->
                    analyze_learning_preferences_local(learning_prefs.val),
                prompt |-> [syllabus |-> Take(syllabus_text.val, 2000)]]]
    /\ UNCHANGED <<study_plans, now, arg, ret, pc>>

\* what a kickoff() call does: it raises, or returns a text
RaiseOutcome == [raise |-> TRUE]
TextOutcome(text) == [raise |-> FALSE, text |-> text]

\* app.py:194-222: syllabus_crew.kickoff() returns or raises; the output is
\* extracted; the schedule task is built and schedule_crew.kickoff() called
SyllabusStep(w, outcome) ==
    /\ workers[w].pc = "syllabus"
    /\ LET me == workers[w]
           calls == Append(me.calls, outcome) IN
       IF outcome.raise
       THEN Abort(w, me.request, calls)
       ELSE LET syllabus_analysis == extract_json_from_response(outcome.text)
                subjects == ScheduleSubjects(syllabus_analysis) IN
            IF ~subjects.ok
            THEN Abort(w, me.request, calls)
            ELSE workers' = [workers EXCEPT ![w] =
                    [pc |-> "schedule", request |-> me.request, calls |-> calls,
                     study_duration_days |-> me.study_duration_days,
                     learning_analysis |-> me.learning_analysis,
                     syllabus_analysis |-> syllabus_analysis,
                     prompt |-> [subjects |-> subjects.val,
                                 style |-> me.learning_analysis.primary_learning_style]]]
    /\ UNCHANGED <<study_plans, now, arg, ret, pc>>

\* app.py:223-249: schedule_crew.kickoff() returns or raises; the output is
\* extracted; the resource task is built and resource_crew.kickoff() called
ScheduleStep(w, outcome) ==
    /\ workers[w].pc = "schedule"
    /\ LET me == workers[w]
           calls == Append(me.calls, outcome) IN
       IF outcome.raise
       THEN Abort(w, me.request, calls)
       ELSE LET schedule == extract_json_from_response(outcome.text)
                topics == ResourceTopics(me.syllabus_analysis) IN
            IF ~topics.ok
            THEN Abort(w, me.request, calls)
            ELSE workers' = [workers EXCEPT ![w] =
                    [pc |-> "resource", request |-> me.request, calls |-> calls,
                     study_duration_days |-> me.study_duration_days,
                     learning_analysis |-> me.learning_analysis,
                     syllabus_analysis |-> me.syllabus_analysis,
                     schedule |-> schedule,
                     prompt |-> [topics |-> topics.val,
                                 style |-> me.learning_analysis.primary_learning_style]]]
    /\ UNCHANGED <<study_plans, now, arg, ret, pc>>

\* app.py:250-269 and 370-386: resource_crew.kickoff() returns or raises; the
\* output is extracted, the checkpoints computed and the record assembled at
\* the current time; generate_plan then reads the clock again (later is its
\* reading, at most one tick here) for the plan id, stores and answers
ResourceStep(w, outcome, later) ==
    /\ workers[w].pc = "resource"
    /\ later \in {now, now + 1}
    /\ later <= MaxTime
    /\ LET me == workers[w]
           calls == Append(me.calls, outcome) IN
       IF outcome.raise
       THEN /\ Abort(w, me.request, calls)
            /\ UNCHANGED <<study_plans, now>>
       ELSE LET resources == extract_json_from_response(outcome.text)
                study_plan == PlanRecord(now,
                    [study_duration_days |-> me.study_duration_days,
                     learning_analysis |-> me.learning_analysis,
                     syllabus_analysis |-> me.syllabus_analysis,
                     schedule |-> me.schedule,
                     resources |-> resources])
                plan_id == PlanId(later) IN
            /\ study_plans' = StorePlan(study_plans, plan_id, study_plan)
            /\ now' = later
            /\ Respond(w, me.request, calls, 200,
                  [success |-> TRUE, plan_id |-> plan_id,
                   summary |->
                      [created_at |-> study_plan.created_at,
                       duration_days |-> study_plan.duration_days,
                       total_estimated_hours |->
                          IF "total_estimated_hours"
                                \in DOMAIN study_plan.syllabus_analysis.members
                          THEN study_plan.syllabus_analysis.members["total_estimated_hours"]
                          ELSE JStr("N/A"),
                       primary_learning_style |->
                          study_plan.learning_analysis.primary_learning_style]])
    /\ UNCHANGED <<arg, ret, pc>>

\* app.py:394-403
get_plan(w, plan_id) ==
    /\ Free(w)
    /\ workers' = [workers EXCEPT ![w] =
          IF plan_id \notin DOMAIN study_plans
          THEN [pc |-> "responded", route |-> "get_plan", plan_id |-> plan_id,
                status |-> 404, payload |-> ErrorPayload("Plan not found")]
          ELSE [pc |-> "responded", route |-> "get_plan", plan_id |-> plan_id,
                status |-> 200,
                payload |-> [success |-> TRUE, plan |-> study_plans[plan_id]]]]
    /\ UNCHANGED <<study_plans, now, arg, ret, pc>>

\* time passes
Tick ==
    /\ now < MaxTime
    /\ now' = now + 1
    /\ UNCHANGED <<study_plans, workers, arg, ret, pc>>

(***************************************************************************)
(* Spec: the server under the requests and generation outputs below.       *)
(***************************************************************************)
SyllabusTexts == {Missing, StrField(<<>>), StrField(<<" ", Newline>>), StrField(<<" ", "j">>)}
PreferenceTexts == {StrField(<<" ">>), StrField(<<"H", "a", "n", "d", "s">>)}
Durations == {Missing, IntField(0), StrField(<<"j">>)}
Bodies == [syllabus_text : SyllabusTexts, learning_preferences : PreferenceTexts,
           study_duration_days : Durations]

Refusal == <<"j", " ", "j">>
FencedSyllabus ==
    <<Fence, "j", Newline,
      "{", "\"subjects\"", ":", "[", "{", "\"name\"", ":", "\"Math\"", "}", "]", ",",
      Newline, " ", "\"total_estimated_hours\"", ":", "1", "2", "}", Newline, Fence>>
SyllabusOutputs ==
    {Refusal, FencedSyllabus, <<"[", "1", "]">>,
     <<"{", "\"subjects\"", ":", "[", "1", "]", "}">>}
ScheduleOutputs ==
    {<<"{", "\"schedule\"", ":", "[", "]", "}">>, <<"{", "}">>}
ResourceOutputs ==
    {<<Fence, Newline, "{", "\"resource_recommendations\"", ":", "[", "]", "}",
       Newline, Fence>>,
     <<"2">>}

Outcomes(texts) == {RaiseOutcome} \cup {TextOutcome(text) : text \in texts}
PlanIds == 0..(PlanId(MaxTime) + 1)

Init ==
    /\ ServerInit
    /\ arg = <<>>
    /\ ret = NotReturned
    /\ pc = "serve"

Next ==
    \/ \E w \in Workers, data \in Bodies : generate_plan(w, data)
    \/ \E w \in Workers, outcome \in Outcomes(SyllabusOutputs) : SyllabusStep(w, outcome)
    \/ \E w \in Workers, outcome \in Outcomes(ScheduleOutputs) : ScheduleStep(w, outcome)
    \/ \E w \in Workers, outcome \in Outcomes(ResourceOutputs), later \in 0..MaxTime :
          ResourceStep(w, outcome, later)
    \/ \E w \in Workers, plan_id \in PlanIds : get_plan(w, plan_id)
    \/ Tick

Spec == Init /\ [][Next]_vars

(***************************************************************************)
(* Properties of the server.                                               *)
(***************************************************************************)
\* worker w holds the response to a POST /api/generate-plan
Answered(w) == workers[w].pc = "responded" /\ workers[w].route = "generate_plan"
\* ... and it sent that response in this step
AnswersNow(w) ==
    /\ workers'[w] # workers[w]
    /\ workers'[w].pc = "responded"
    /\ workers'[w].route = "generate_plan"

AnyRaise(calls) == \E i \in DOMAIN calls : calls[i].raise
\* the output of a generation call parses / does not parse as JSON
Parses(text) == JsonLoads(C8_Parsed(text)).ok
ParsedValue(text) == JsonLoads(C8_Parsed(text)).val

\* C1: once the generation calls are under way and none raises, the request
\* ends with a stored plan and status 200, whatever texts the calls return.
C1_ContentNeverAborts ==
    \A w \in Workers :
        (Answered(w) /\ workers[w].calls # <<>> /\ ~AnyRaise(workers[w].calls))
        => /\ workers[w].status = 200
           /\ workers[w].payload.plan_id \in DOMAIN study_plans

\* C2: when the syllabus output does not parse, the schedule and resource
\* calls are still made, with no subjects; and when their outputs parse, the
\* request is answered 200 and the stored record has the error marker as
\* syllabus_analysis and the parsed schedule and resource outputs.
C2_SyllabusParseFailureDegrades ==
    \A w \in Workers :
        LET me == workers[w] IN
        (me.pc \in {"schedule", "resource", "responded"}
            /\ (me.pc = "responded" => me.route = "generate_plan")
            /\ me.calls # <<>>
            /\ ~me.calls[1].raise
            /\ ~Parses(me.calls[1].text))
        => /\ me.pc = "schedule" => me.prompt.subjects = JArr(<<>>)
           /\ me.pc = "resource" => me.prompt.topics = <<>>
           /\ me.pc = "responded" => Len(me.calls) >= 2
           /\ (me.pc = "responded" /\ ~AnyRaise(me.calls)) => Len(me.calls) = 3
           /\ (me.pc = "responded" /\ Len(me.calls) = 3 /\ ~AnyRaise(me.calls)
                 /\ Parses(me.calls[2].text) /\ Parses(me.calls[3].text))
              => /\ me.status = 200
                 /\ me.payload.plan_id \in DOMAIN study_plans
                 /\ LET plan == study_plans[me.payload.plan_id] IN
                    /\ plan.syllabus_analysis = Sentinel
                    /\ plan.schedule = ParsedValue(me.calls[2].text)
                    /\ plan.resources = ParsedValue(me.calls[3].text)

\* a plan was stored after a refusal from the syllabus analyzer
C2_Witness ==
    \E w \in Workers :
        /\ Answered(w)
        /\ workers[w].status = 200
        /\ workers[w].calls[1] = TextOutcome(Refusal)
        /\ study_plans[workers[w].payload.plan_id].syllabus_analysis = Sentinel
        /\ HasKey(study_plans[workers[w].payload.plan_id].schedule, "schedule")

C3_Blank(field) ==
    \/ field.kind = "missing"
    \/ field.kind = "str" /\ Strip(field.chars) = <<>>

\* C3: a request whose syllabus_text is missing, empty or blank is answered
\* 400 with an error payload, whatever its other fields; no generation call
\* is made, no plan id is issued and the store is left as it was.
C3_BlankSyllabusRejected ==
    [][\A w \in Workers :
          (AnswersNow(w) /\ C3_Blank(workers'[w].request.syllabus_text))
          => /\ workers'[w].status = 400
             /\ DOMAIN workers'[w].payload = {"error"}
             /\ workers'[w].calls = <<>>
             /\ study_plans' = study_plans]_vars

\* C4: a stored record is never replaced, a GET returns the stored record,
\* and every POST answered 200 adds exactly one entry to the store.
C4_StoredPlansNeverReplaced ==
    [][/\ \A id \in DOMAIN study_plans :
             id \in DOMAIN study_plans' /\ study_plans'[id] = study_plans[id]
       /\ \A w \in Workers :
             (AnswersNow(w) /\ workers'[w].status = 200)
             => Cardinality(DOMAIN study_plans')
                   = Cardinality(DOMAIN study_plans) + 1]_vars

\* C5: when a generation call raises, at whichever step, the request is
\* answered 500 with an error payload, no plan id is issued and the store is
\* left as it was.
C5_RaiseAbortsWithoutStoring ==
    [][\A w \in Workers :
          (AnswersNow(w) /\ AnyRaise(workers'[w].calls))
          => /\ workers'[w].status = 500
             /\ DOMAIN workers'[w].payload = {"error"}
             /\ study_plans' = study_plans]_vars

\* the resource call raised after the two earlier calls had returned
C5_Witness ==
    \E w \in Workers :
        /\ Answered(w)
        /\ Len(workers[w].calls) = 3
        /\ ~workers[w].calls[1].raise
        /\ ~workers[w].calls[2].raise
        /\ workers[w].calls[3].raise
        /\ workers[w].status = 500

\* C6: every stored plan has duration_days > 0, and no request with a
\* duration of zero or less gets past the boundary.
C6_DurationPositive ==
    /\ \A id \in DOMAIN study_plans : study_plans[id].duration_days > 0
    /\ \A w \in Workers :
          workers[w].pc \in {"syllabus", "schedule", "resource"}
          => workers[w].study_duration_days > 0

C7_WellFormed(v, keys) == v = Sentinel \/ (IsDict(v) /\ keys \subseteq DOMAIN v.members)

\* C7: each of syllabus_analysis, schedule and resources of a stored plan is
\* an object with the keys of its schema, or the error marker.
C7_FieldsWellFormed ==
    \A id \in DOMAIN study_plans :
        /\ C7_WellFormed(study_plans[id].syllabus_analysis,
                         {"subjects", "total_estimated_hours"})
        /\ C7_WellFormed(study_plans[id].schedule, {"schedule"})
        /\ C7_WellFormed(study_plans[id].resources, {"resource_recommendations"})

==========================================================================
